---- MODULE Spec2Model ----
(***************************************************************************)
(* Model of p5/opengl/shader.py: the GLSL source preprocessor              *)
(* (preprocess_shader) and the Shader / ShaderProgram wrappers.            *)
(*                                                                         *)
(* Text is modelled as a sequence of lexemes: a maximal run of identifier  *)
(* characters [0-9A-Z_a-z] is one lexeme (a "word"), every other character *)
(* is a lexeme of its own.  Two words are never adjacent in a text, since  *)
(* adjacent identifier characters belong to the same maximal run.          *)
(*                                                                         *)
(* Python exceptions keep their Python names; the names the design         *)
(* document uses for them are defined next to the code that raises them.   *)
(***************************************************************************)
EXTENDS Integers, Sequences, FiniteSets, TLC

VARIABLES
    shader_source,     \* argument of the preprocess_shader call under study
    shader_type,       \* argument: the stage
    open_gl_version,   \* argument: the version label
    pc,                \* "start" | "preprocessed" | "constructed" | "run"
    result,            \* outcome of the preprocess_shader call
    shader,            \* the Shader object (kind, _id, source), or NoShader
    gl_shaders,        \* native shader objects allocated by glCreateShader
    program,           \* the ShaderProgram object (_id, _uniforms)
    gl_attached,       \* native: <<program, shader>> pairs of glAttachShader
    gl_linked,         \* native: glLinkProgram was requested on the program
    gl_current,        \* native: the program in use (0: none)
    gl_calls,          \* native uniform-update calls, in call order
    last,              \* outcome of the most recent operation
    hist               \* history: what the native layer handed out

vars == <<shader_source, shader_type, open_gl_version, pc, result, shader,
          gl_shaders, program, gl_attached, gl_linked, gl_current, gl_calls,
          last, hist>>

-----------------------------------------------------------------------------
(* Bounds *)

MaxLen == 3        \* longest source text, in lexemes
MaxHandle == 2     \* native object names run over 1..MaxHandle
MaxCalls == 2      \* longest recorded sequence of native uniform updates

-----------------------------------------------------------------------------
(* Exceptions *)

TypeError == "TypeError"
KeyError == "KeyError"
NameError == "NameError"
NoError == "none"

UnsupportedStageError == TypeError
UnknownVersionError == KeyError
NotCompiledError == NameError
UnknownUniformError == KeyError
UnsupportedUniformTypeError == KeyError

-----------------------------------------------------------------------------
(* Lexemes *)

NL == "\n"
SP == " "

\* the identifiers the rewrite rules know, and some they do not
Words == {"varying", "attribute", "texture", "texMap", "texture2DRect",
          "texture2D", "texture3D", "textureCube", "gl_FragColor",
          "_fragColor", "in", "out", "vec4", "uv", "version",
          "110", "120", "130", "140", "150", "330", "400", "410", "420",
          "430", "440", "450"}

\* \s of the regular expressions
Whitespace == {SP, NL}

IsWord(a) == a \in Words

\* the lexemes source texts are drawn from
SourceLexemes == {"varying", "attribute", "texture", "texture2D",
                  "textureCube", "gl_FragColor", "uv", "version",
                  SP, "(", "#", NL}

WellFormed(s) == \A i \in 1..(Len(s) - 1) : ~(IsWord(s[i]) /\ IsWord(s[i + 1]))

RECURSIVE TextsOfLen(_)
TextsOfLen(n) ==
    IF n = 0 THEN {<<>>}
    ELSE {Append(s, a) : s \in TextsOfLen(n - 1), a \in SourceLexemes}

Sources == {s \in UNION {TextsOfLen(n) : n \in 0..MaxLen} : WellFormed(s)}

-----------------------------------------------------------------------------
(* preprocess_shader *)

GLSL_VERSIONS ==
    ("2.0" :> 110) @@ ("2.1" :> 120) @@ ("3.0" :> 130) @@ ("3.1" :> 140) @@
    ("3.2" :> 150) @@ ("3.3" :> 330) @@ ("4.0" :> 400) @@ ("4.1" :> 410) @@
    ("4.2" :> 420) @@ ("4.3" :> 430) @@ ("4.4" :> 440) @@ ("4.5" :> 450)

\* the marker recognised only at the very start of the text
HasVersionMarker_at_start(s) ==
    Len(s) >= 2 /\ s[1] = "#" /\ s[2] = "version"

\* "#version" in shader_source: a '#' directly followed by the identifier
\* `version` (the only identifier of Words that begins with it)
HasVersionMarker(s) ==
    \E i \in 1..(Len(s) - 1) : s[i] = "#" /\ s[i + 1] = "version"

\* "#version {}\n".format(target_glsl_version)
VersionLine(token) == <<"#", "version", SP, ToString(token), NL>>

\* "out vec4 _fragColor;"
FragColorDecl == <<"out", SP, "vec4", SP, "_fragColor", ";">>

\* shader_source.split('\n'): the lines between the newlines, at least one
RECURSIVE SplitFrom(_, _, _)
SplitFrom(s, i, cur) ==
    IF i > Len(s) THEN <<cur>>
    ELSE IF s[i] = NL THEN <<cur>> \o SplitFrom(s, i + 1, <<>>)
    ELSE SplitFrom(s, i + 1, Append(cur, s[i]))

Split(s) == SplitFrom(s, 1, <<>>)

\* \s*\( at position i of the line
RECURSIVE CallParenAt(_, _)
CallParenAt(line, i) ==
    IF i > Len(line) THEN FALSE
    ELSE IF line[i] = "(" THEN TRUE
    ELSE IF line[i] \in Whitespace THEN CallParenAt(line, i + 1)
    ELSE FALSE

\* (?<![0-9A-Z_a-z]) before position i
LookBehind(line, i) == i = 1 \/ ~IsWord(line[i - 1])

\* re_id: (?<![0-9A-Z_a-z])({})(?![0-9A-Z_a-z]|\s*\()
re_id(search, line, i) ==
    /\ line[i] \in search
    /\ LookBehind(line, i)
    /\ ~(i < Len(line) /\ IsWord(line[i + 1]))
    /\ ~CallParenAt(line, i + 1)

\* re_fn with the lookahead \( in place of \s*\(
re_fn_no_blanks(search, line, i) ==
    /\ line[i] \in search
    /\ LookBehind(line, i)
    /\ i < Len(line)
    /\ line[i + 1] = "("

\* re_fn: (?<![0-9A-Z_a-z])({})(?=\s*\()
re_fn(search, line, i) ==
    /\ line[i] \in search
    /\ LookBehind(line, i)
    /\ CallParenAt(line, i + 1)

Matches(rule, line, i) ==
    IF rule.regex = "re_id" THEN re_id(rule.search, line, i)
    ELSE re_fn(rule.search, line, i)

\* re.sub(regex.format(search), replace, new_line)
Sub(rule, line) ==
    [i \in 1..Len(line) |->
        IF Matches(rule, line, i) THEN rule.replace ELSE line[i]]

TextureFns == {"texture2DRect", "texture2D", "texture3D", "textureCube"}

Rule(regex, search, replace) ==
    [regex |-> regex, search |-> search, replace |-> replace]

VertexPatterns == <<
    Rule("re_id", {"varying"}, "out"),
    Rule("re_id", {"attribute"}, "in"),
    Rule("re_id", {"texture"}, "texMap"),
    Rule("re_fn", TextureFns, "texture") >>

\* the fragment rules without the last one
FragmentPatterns_no_frag_color == <<
    Rule("re_id", {"varying", "attribute"}, "in"),
    Rule("re_id", {"texture"}, "texMap"),
    Rule("re_fn", TextureFns, "texture") >>

FragmentPatterns == <<
    Rule("re_id", {"varying", "attribute"}, "in"),
    Rule("re_id", {"texture"}, "texMap"),
    Rule("re_fn", TextureFns, "texture"),
    Rule("re_id", {"gl_FragColor"}, "_fragColor") >>

\* for regex, search, replace in patterns: new_line = re.sub(...)
RECURSIVE ApplyPatterns(_, _, _)
ApplyPatterns(patterns, k, line) ==
    IF k > Len(patterns) THEN line
    ELSE ApplyPatterns(patterns, k + 1, Sub(patterns[k], line))

\* the loop with '\n'.join in place of += new_line + '\n'
RECURSIVE RewriteLines_joined(_, _, _)
RewriteLines_joined(patterns, lines, k) ==
    IF k > Len(lines) THEN <<>>
    ELSE ApplyPatterns(patterns, 1, lines[k])
         \o (IF k < Len(lines) THEN <<NL>> ELSE <<>>)
         \o RewriteLines_joined(patterns, lines, k + 1)

\* for line in shader_source.split('\n'): processed_shader += new_line + '\n'
RECURSIVE RewriteLines(_, _, _)
RewriteLines(patterns, lines, k) ==
    IF k > Len(lines) THEN <<>>
    ELSE ApplyPatterns(patterns, 1, lines[k]) \o <<NL>>
         \o RewriteLines(patterns, lines, k + 1)

Ok(text) == [err |-> NoError, text |-> text]
Raise(e) == [err |-> e, text |-> <<>>]

\* preprocess_shader with the floor test written < 120
preprocess_shader_floor_120(source, kind, version) ==
    IF version \notin DOMAIN GLSL_VERSIONS THEN Raise(KeyError)
    ELSE LET target_glsl_version == GLSL_VERSIONS[version]
             processed_shader == VersionLine(target_glsl_version)
         IN  IF HasVersionMarker(source) THEN Ok(source)
             ELSE IF target_glsl_version < 120
                  THEN Ok(processed_shader \o source)
             ELSE IF kind = "vertex"
                  THEN Ok(processed_shader
                          \o RewriteLines(VertexPatterns, Split(source), 1))
             ELSE IF kind = "fragment"
                  THEN Ok(processed_shader \o FragColorDecl
                          \o RewriteLines(FragmentPatterns, Split(source), 1))
             ELSE Raise(TypeError)

preprocess_shader(source, kind, version) ==
    IF version \notin DOMAIN GLSL_VERSIONS THEN Raise(KeyError)
    ELSE LET target_glsl_version == GLSL_VERSIONS[version]
             processed_shader == VersionLine(target_glsl_version)
         IN  IF HasVersionMarker(source) THEN Ok(source)
             ELSE IF target_glsl_version < 130
                  THEN Ok(processed_shader \o source)
             ELSE IF kind = "vertex"
                  THEN Ok(processed_shader
                          \o RewriteLines(VertexPatterns, Split(source), 1))
             ELSE IF kind = "fragment"
                  THEN Ok(processed_shader \o FragColorDecl
                          \o RewriteLines(FragmentPatterns, Split(source), 1))
             ELSE Raise(TypeError)

-----------------------------------------------------------------------------
(* Native graphics layer, as far as the wrappers use it *)

\* glCreateShader / glCreateProgram return a fresh nonzero name, or 0 when
\* the object cannot be created; names are never released by this code
FreshNames(used) == (1..MaxHandle) \ used

\* glGetUniformLocation: -1 when the program has no such active uniform
Locations == {-1, 1}

-----------------------------------------------------------------------------
(* Shader *)

None == -1

\* truth value of a Python int-or-None
Truthy(v) == v # None /\ v # 0

debug == TRUE

_supported_shader_types ==
    ("vertex" :> "GL_VERTEX_SHADER") @@ ("fragment" :> "GL_FRAGMENT_SHADER")

NoShader == [live |-> FALSE, kind |-> "", _id |-> None, source |-> <<>>]

Outcome(op, err, ret) ==
    [op |-> op, err |-> err, ret |-> ret, name |-> "", data |-> "",
     printed |-> FALSE]

\* Shader.__init__: the object exists only when no exception escapes
ShaderInit(source, kind, version, preprocess) ==
    LET r == IF preprocess THEN preprocess_shader(source, kind, version)
             ELSE Ok(source)
    IN  /\ shader' = IF r.err = NoError
                     THEN [live |-> TRUE, kind |-> kind, _id |-> None,
                           source |-> r.text]
                     ELSE NoShader
        /\ last' = Outcome("Shader", r.err, None)

\* Shader.compile, with the native create call returning h
CompileWith(h, log_nonempty) ==
    IF shader.kind \notin DOMAIN _supported_shader_types
    THEN /\ last' = Outcome("compile", KeyError, None)
         /\ UNCHANGED <<shader, gl_shaders, hist>>
    ELSE /\ shader' = [shader EXCEPT !._id = h]
         /\ gl_shaders' = gl_shaders \cup ({h} \ {0})
         /\ hist' = [hist EXCEPT !.compiled_ok = @ \/ h # 0,
                                 !.created = h]
         /\ last' = [Outcome("compile", NoError, None)
                        EXCEPT !.printed = debug /\ log_nonempty]

\* Shader.sid
sid(s) ==
    IF Truthy(s._id) THEN [err |-> NoError, ret |-> s._id]
    ELSE [err |-> NameError, ret |-> None]

-----------------------------------------------------------------------------
(* ShaderProgram *)

_uniform_function_map == ("vec4" :> "_uvec4") @@ ("mat4" :> "_umat4")

ShaderUniform(name, uid, function) ==
    [name |-> name, uid |-> uid, function |-> function]

NoUniforms == [n \in {} |-> ShaderUniform("", 0, "")]

\* _uvec4 and _umat4: the native call each update function makes
_uvec4(uniform, data) ==
    [fn |-> "glUniform4f", location |-> uniform, data |-> data]

_umat4(uniform, matrix) ==
    [fn |-> "glUniformMatrix4fv", location |-> uniform, data |-> matrix]

CallFunction(function, uniform, data) ==
    IF function = "_uvec4" THEN _uvec4(uniform, data)
    ELSE _umat4(uniform, data)

\* ShaderProgram.add_uniform, with the native location query returning loc
add_uniform(uniform_name, dtype, loc) ==
    IF dtype \notin DOMAIN _uniform_function_map
    THEN /\ last' = [Outcome("add_uniform", KeyError, None)
                        EXCEPT !.name = uniform_name]
         /\ UNCHANGED <<program, hist>>
    ELSE /\ program' =
             [program EXCEPT !._uniforms =
                 (uniform_name :> ShaderUniform(uniform_name, loc,
                                      _uniform_function_map[dtype])) @@ @]
         /\ hist' = [hist EXCEPT !.reg =
                        (uniform_name :> [loc |-> loc, dtype |-> dtype]) @@ @]
         /\ last' = [Outcome("add_uniform", NoError, None)
                        EXCEPT !.name = uniform_name]

\* update_uniform looking the binding up with dict.get and skipping a miss
update_uniform_skip_missing(uniform_name, data) ==
    IF uniform_name \notin DOMAIN program._uniforms
    THEN /\ last' = [Outcome("update_uniform", NoError, None)
                        EXCEPT !.name = uniform_name, !.data = data]
         /\ UNCHANGED gl_calls
    ELSE LET uniform == program._uniforms[uniform_name]
         IN  /\ gl_calls' = Append(gl_calls,
                    CallFunction(uniform.function, uniform.uid, data))
             /\ last' = [Outcome("update_uniform", NoError, None)
                            EXCEPT !.name = uniform_name, !.data = data]

\* ShaderProgram.update_uniform
update_uniform(uniform_name, data) ==
    IF uniform_name \notin DOMAIN program._uniforms
    THEN /\ last' = [Outcome("update_uniform", KeyError, None)
                        EXCEPT !.name = uniform_name, !.data = data]
         /\ UNCHANGED gl_calls
    ELSE LET uniform == program._uniforms[uniform_name]
         IN  /\ gl_calls' = Append(gl_calls,
                    CallFunction(uniform.function, uniform.uid, data))
             /\ last' = [Outcome("update_uniform", NoError, None)
                            EXCEPT !.name = uniform_name, !.data = data]

\* ShaderProgram.attach: both arguments are evaluated before the native call
attach(s) ==
    LET r == sid(s)
    IN  IF r.err # NoError
        THEN /\ last' = Outcome("attach", r.err, None)
             /\ UNCHANGED gl_attached
        ELSE /\ gl_attached' = gl_attached \cup {<<program._id, r.ret>>}
             /\ last' = Outcome("attach", NoError, None)

-----------------------------------------------------------------------------
(* Inputs *)

Stages == {"vertex", "fragment", "geometry"}

\* labels on both sides of the 130 floor, and one the table does not hold
Labels == {"2.0", "2.1", "3.0", "3.3", "9.9"}

\* sources the Shader objects of the wrapper specification are built from
SampleSources == {
    <<"attribute", SP, "uv">>,
    <<"#", "version", SP, "uv">> }

DTypes == {"vec4", "mat4", "vec3"}
UniformNames == {"fill_color", "transform"}
Data == {"d1", "d2"}

-----------------------------------------------------------------------------
(* Initial states *)

Pending == [err |-> "pending", text |-> <<>>]

NoRegistrations == [n \in {} |-> [loc |-> 0, dtype |-> ""]]

NoProgram == [_id |-> None, _uniforms |-> NoUniforms]

\* ShaderProgram.__init__, with the native create call returning p
ProgramInit(p) == [_id |-> p, _uniforms |-> NoUniforms]

InitObjects(programs) ==
    /\ shader = NoShader
    /\ gl_shaders = {}
    /\ program \in programs
    /\ gl_attached = {}
    /\ gl_linked = FALSE
    /\ gl_current = 0
    /\ gl_calls = <<>>
    /\ last = Outcome("init", NoError, None)
    /\ hist = [compiled_ok |-> FALSE, created |-> None,
               reg |-> NoRegistrations]
    /\ result = Pending

\* one call of preprocess_shader, or one Shader construction, on any input
InitPre ==
    /\ shader_source \in Sources
    /\ shader_type \in Stages
    /\ open_gl_version \in Labels
    /\ pc = "start"
    /\ InitObjects({NoProgram})

\* the wrappers in use: a ShaderProgram has been constructed, no Shader yet
Init ==
    /\ shader_source = <<>>
    /\ shader_type = ""
    /\ open_gl_version = ""
    /\ pc = "run"
    /\ InitObjects({ProgramInit(p) : p \in FreshNames({})})

-----------------------------------------------------------------------------
(* Actions of the preprocessor specification *)

Preprocess ==
    /\ pc = "start"
    /\ result' = preprocess_shader(shader_source, shader_type, open_gl_version)
    /\ pc' = "preprocessed"
    /\ UNCHANGED <<shader_source, shader_type, open_gl_version, shader,
                   gl_shaders, program, gl_attached, gl_linked, gl_current,
                   gl_calls, last, hist>>

\* Shader(shader_source, shader_type, open_gl_version, preprocess); result
\* keeps which preprocess flag the constructor was given
ConstructFrom ==
    /\ pc = "start"
    /\ \E preprocess \in BOOLEAN :
          /\ ShaderInit(shader_source, shader_type, open_gl_version, preprocess)
          /\ result' = [Pending EXCEPT !.err =
                           IF preprocess THEN "flag set" ELSE "flag clear"]
    /\ pc' = "constructed"
    /\ UNCHANGED <<shader_source, shader_type, open_gl_version, gl_shaders,
                   program, gl_attached, gl_linked, gl_current, gl_calls, hist>>

NextPre == Preprocess \/ ConstructFrom

SpecPre == InitPre /\ [][NextPre]_vars

-----------------------------------------------------------------------------
(* Actions of the wrapper specification *)

args == <<shader_source, shader_type, open_gl_version, pc, result>>

Construct ==
    /\ ~shader.live
    /\ \E source \in SampleSources, kind \in Stages,
          version \in {"2.0", "3.3"}, preprocess \in BOOLEAN :
          ShaderInit(source, kind, version, preprocess)
    /\ UNCHANGED <<args, gl_shaders, program, gl_attached, gl_linked,
                   gl_current, gl_calls, hist>>

Compile ==
    /\ shader.live
    /\ \E h \in {0} \cup FreshNames(gl_shaders), log_nonempty \in BOOLEAN :
          CompileWith(h, log_nonempty)
    /\ UNCHANGED <<args, program, gl_attached, gl_linked, gl_current,
                   gl_calls>>

ReadSid ==
    /\ shader.live
    /\ last' = Outcome("sid", sid(shader).err, sid(shader).ret)
    /\ UNCHANGED <<args, shader, gl_shaders, program, gl_attached, gl_linked,
                   gl_current, gl_calls, hist>>

Attach ==
    /\ shader.live
    /\ attach(shader)
    /\ UNCHANGED <<args, shader, gl_shaders, program, gl_linked, gl_current,
                   gl_calls, hist>>

\* ShaderProgram.link
Link ==
    /\ gl_linked' = TRUE
    /\ last' = Outcome("link", NoError, None)
    /\ UNCHANGED <<args, shader, gl_shaders, program, gl_attached, gl_current,
                   gl_calls, hist>>

\* ShaderProgram.activate
Activate ==
    /\ gl_current' = program._id
    /\ last' = Outcome("activate", NoError, None)
    /\ UNCHANGED <<args, shader, gl_shaders, program, gl_attached, gl_linked,
                   gl_calls, hist>>

\* ShaderProgram.deactivate
Deactivate ==
    /\ gl_current' = 0
    /\ last' = Outcome("deactivate", NoError, None)
    /\ UNCHANGED <<args, shader, gl_shaders, program, gl_attached, gl_linked,
                   gl_calls, hist>>

Next ==
    \/ Construct
    \/ Compile
    \/ ReadSid
    \/ Attach
    \/ Link
    \/ Activate
    \/ Deactivate

Spec == Init /\ [][Next]_vars

-----------------------------------------------------------------------------
(* Actions of the uniform specification *)

AddUniform ==
    /\ \E uniform_name \in UniformNames, dtype \in DTypes, loc \in Locations :
          add_uniform(uniform_name, dtype, loc)
    /\ UNCHANGED <<args, shader, gl_shaders, gl_attached, gl_linked,
                   gl_current, gl_calls>>

UpdateUniform ==
    /\ Len(gl_calls) < MaxCalls
    /\ \E uniform_name \in UniformNames, data \in Data :
          update_uniform(uniform_name, data)
    /\ UNCHANGED <<args, shader, gl_shaders, program, gl_attached, gl_linked,
                   gl_current, hist>>

NextUniforms == AddUniform \/ UpdateUniform

SpecUniforms == Init /\ [][NextUniforms]_vars

-----------------------------------------------------------------------------
(* What the design document says of the preprocessor, lexeme by lexeme *)

Preprocessed == pc = "preprocessed"

\* the text holds "#version" somewhere
ContainsMarker(s) ==
    \E i \in 1..Len(s) : i < Len(s) /\ s[i] = "#" /\ s[i + 1] = "version"
KnownLabel == open_gl_version \in DOMAIN GLSL_VERSIONS
Token == GLSL_VERSIONS[open_gl_version]
SupportedStage == shader_type \in {"vertex", "fragment"}

\* the version line the document asks for
ExpectedVersionLine == <<"#", "version", " ", ToString(Token), "\n">>

\* the declaration the document asks for in the fragment stage
ExpectedDecl == <<"out", " ", "vec4", " ", "_fragColor", ";">>

ExpectedHeader ==
    IF shader_type = "fragment" THEN ExpectedVersionLine \o ExpectedDecl
    ELSE ExpectedVersionLine

\* the lexeme at i is followed, on its line, by optional blanks and a '('
CallPosition(s, i) ==
    \E j \in (i + 1)..Len(s) :
        /\ s[j] = "("
        /\ \A k \in (i + 1)..(j - 1) : s[k] = " "

\* the rewrite of lexeme i of the source that section 4.1 (5, 6) describes
ExpectedLexeme(stage, s, i) ==
    IF CallPosition(s, i)
    THEN IF s[i] \in {"texture2DRect", "texture2D", "texture3D", "textureCube"}
         THEN "texture" ELSE s[i]
    ELSE CASE s[i] = "varying" -> IF stage = "vertex" THEN "out" ELSE "in"
           [] s[i] = "attribute" -> "in"
           [] s[i] = "texture" -> "texMap"
           [] s[i] = "gl_FragColor" /\ stage = "fragment" -> "_fragColor"
           [] OTHER -> s[i]

ExpectedBody(stage, s) == [i \in 1..Len(s) |-> ExpectedLexeme(stage, s, i)]

\* what follows the header in the output
OutputBody ==
    SubSeq(result.text, Len(ExpectedHeader) + 1, Len(result.text))

\* number of places where d occurs in t
Occurrences(d, t) ==
    Cardinality({i \in 1..(Len(t) - Len(d) + 1) :
                    SubSeq(t, i, i + Len(d) - 1) = d})

Rewritten ==
    /\ Preprocessed
    /\ ~ContainsMarker(shader_source)
    /\ KnownLabel
    /\ Token >= 130
    /\ SupportedStage

-----------------------------------------------------------------------------
(* C1 *)

\* C1 as stated: a source holding a version marker is returned unchanged,
\* whatever the stage and whatever the target version label.
C1_OptOutAnyLabel ==
    (Preprocessed /\ ContainsMarker(shader_source))
        => result = Ok(shader_source)

\* C1, amended: a source holding a version marker is returned unchanged,
\* whatever the stage, for every target version label of the version table.
C1_OptOutKnownLabel ==
    (Preprocessed /\ ContainsMarker(shader_source) /\ KnownLabel)
        => result = Ok(shader_source)

C1_Witness ==
    /\ Preprocessed
    /\ ContainsMarker(shader_source)
    /\ shader_source[1] = "texture"
    /\ shader_type = "geometry"
    /\ open_gl_version = "3.3"
    /\ result = Ok(shader_source)

-----------------------------------------------------------------------------
(* C2 *)

\* C2: without a version marker and with a token below 130, the output is
\* the version line followed by the source verbatim, whatever the stage.
C2_VersionFloor ==
    (Preprocessed /\ ~ContainsMarker(shader_source) /\ KnownLabel
        /\ Token < 130)
        => result = Ok(ExpectedVersionLine \o shader_source)

C2_Witness ==
    /\ Preprocessed
    /\ open_gl_version = "2.1"
    /\ shader_type = "fragment"
    /\ shader_source = <<"texture2D", "(", "gl_FragColor">>
    /\ result.text = <<"#", "version", " ", "120", "\n",
                       "texture2D", "(", "gl_FragColor">>

-----------------------------------------------------------------------------
(* C3 *)

\* C3: with a stage that is neither vertex nor fragment and a known label,
\* preprocess fails with UnsupportedStageError on every source, and so does
\* constructing a Shader, with the preprocess flag set or clear.
C3_UnsupportedStageRejected ==
    (~SupportedStage /\ KnownLabel)
        => /\ Preprocessed => result.err = UnsupportedStageError
           /\ pc = "constructed" => last.err = UnsupportedStageError

-----------------------------------------------------------------------------
(* C7 *)

\* C7: in a rewritten source every whole-token `texture` not in call
\* position comes out as `texMap`, every call-position texture2DRect,
\* texture2D, texture3D or textureCube comes out as `texture`, and no
\* `texture` the function rule introduced comes out as `texMap`.
C7_TextureRules ==
    Rewritten =>
        /\ result.err = NoError
        /\ Len(OutputBody) >= Len(shader_source)
        /\ \A i \in 1..Len(shader_source) :
              /\ (shader_source[i] = "texture"
                    /\ ~CallPosition(shader_source, i))
                    => OutputBody[i] = "texMap"
              /\ (shader_source[i] \in {"texture2DRect", "texture2D",
                                        "texture3D", "textureCube"}
                    /\ CallPosition(shader_source, i))
                    => OutputBody[i] = "texture"
              /\ OutputBody[i] = "texMap"
                    => (shader_source[i] = "texture"
                          /\ ~CallPosition(shader_source, i))

C7_Witness ==
    /\ Rewritten
    /\ shader_source = <<"textureCube", "(", "texture">>
    /\ OutputBody = <<"texture", "(", "texMap", "\n">>

-----------------------------------------------------------------------------
(* C8 *)

\* C8: in the fragment stage the output starts with the version line, the
\* declaration `out vec4 _fragColor;` follows it directly and before any
\* text of the source, it occurs once, and every whole-token `gl_FragColor`
\* not in call position comes out as `_fragColor`.
C8_FragmentDeclaration ==
    (Rewritten /\ shader_type = "fragment") =>
        /\ result.err = NoError
        /\ SubSeq(result.text, 1, 5) = ExpectedVersionLine
        /\ SubSeq(result.text, 6, 11) = ExpectedDecl
        /\ Occurrences(ExpectedDecl, result.text) = 1
        /\ Len(result.text) >= 11 + Len(shader_source)
        /\ \A i \in 1..Len(shader_source) :
              (shader_source[i] = "gl_FragColor"
                    /\ ~CallPosition(shader_source, i))
                    => result.text[11 + i] = "_fragColor"

C8_Witness ==
    /\ Rewritten
    /\ shader_type = "fragment"
    /\ open_gl_version = "3.0"
    /\ shader_source = <<"gl_FragColor", "\n", "gl_FragColor">>
    /\ result.text = <<"#", "version", " ", "130", "\n",
                       "out", " ", "vec4", " ", "_fragColor", ";",
                       "_fragColor", "\n", "_fragColor", "\n">>

-----------------------------------------------------------------------------
(* C10 *)

\* C10 as stated: the output is the header followed by the rewritten source
\* lines joined by newlines, line for line; a source no rule matches is
\* copied through unchanged after the header.
C10_LinesJoined ==
    Rewritten =>
        /\ result.err = NoError
        /\ result.text
              = ExpectedHeader \o ExpectedBody(shader_type, shader_source)

\* C10, amended: the output is the header followed by the rewritten source
\* lines, line for line, each of them ended by a newline (the lines joined
\* by newlines, and one newline after the last); a source no rule matches is
\* copied through after the header with one newline added at its end.
C10_LinesTerminated ==
    Rewritten =>
        /\ result.err = NoError
        /\ result.text
              = ExpectedHeader \o ExpectedBody(shader_type, shader_source)
                  \o <<"\n">>

C10_Witness ==
    /\ Rewritten
    /\ shader_type = "vertex"
    /\ shader_source = <<"varying", "\n", "uv">>
    /\ result.text = <<"#", "version", " ", ToString(Token), "\n",
                       "out", "\n", "uv", "\n">>

-----------------------------------------------------------------------------
(* C4, C6, C9: the Shader's handle *)

\* C4: reading the handle fails with NotCompiledError exactly when no
\* Compile() has succeeded on the Shader yet; once one has, the read
\* succeeds and returns the handle the native create call produced; a
\* failing read changes no state of the Shader.
C4_HandleGate ==
    [][last'.op = "sid" =>
          /\ (last'.err = NotCompiledError) <=> ~hist.compiled_ok
          /\ hist.compiled_ok =>
                (last'.err = NoError /\ last'.ret = hist.created)
          /\ shader' = shader]_vars

\* C6: Attach on a Shader that has not been successfully compiled fails with
\* NotCompiledError and leaves the set of attached shaders unchanged; on a
\* compiled Shader it registers that Shader's handle with this program's.
C6_AttachGate ==
    [][last'.op = "attach" =>
          IF ~hist.compiled_ok
          THEN last'.err = NotCompiledError /\ gl_attached' = gl_attached
          ELSE /\ last'.err = NoError
               /\ gl_attached'
                     = gl_attached \cup {<<program._id, shader._id>>}]_vars

\* C9: over any sequence of operations on a Shader the handle goes from
\* absent to set at most once and never changes afterwards, and the Shader
\* allocates at most one native shader object.  (A handle is set when the
\* accessor returns it.)
C9_HandleSetOnce ==
    [][/\ Truthy(shader._id) => shader'._id = shader._id
       /\ Cardinality(gl_shaders') <= 1]_vars

-----------------------------------------------------------------------------
(* C5 *)

\* the native update function of a declared data type
NativeUpdateOf(dtype) ==
    IF dtype = "vec4" THEN "glUniform4f" ELSE "glUniformMatrix4fv"

\* C5: UpdateUniform(name, data) fails with UnknownUniformError and makes no
\* native update call when name has not been registered; otherwise it makes
\* exactly one call, of the update function of the declared data type, with
\* the location stored at registration and exactly the supplied data.
C5_RegisterBeforeUpdate ==
    [][last'.op = "update_uniform" =>
          IF last'.name \notin DOMAIN hist.reg
          THEN last'.err = UnknownUniformError /\ gl_calls' = gl_calls
          ELSE /\ last'.err = NoError
               /\ gl_calls' = Append(gl_calls,
                     [fn |-> NativeUpdateOf(hist.reg[last'.name].dtype),
                      location |-> hist.reg[last'.name].loc,
                      data |-> last'.data])]_vars

\* fill_color was registered twice, a call was made under each registration
C5_Witness ==
    /\ last.op = "update_uniform"
    /\ last.err = NoError
    /\ last.name = "fill_color"
    /\ "transform" \notin DOMAIN program._uniforms
    /\ gl_calls = <<[fn |-> "glUniform4f", location |-> 1, data |-> "d1"],
                    [fn |-> "glUniformMatrix4fv", location |-> -1,
                     data |-> "d2"]>>

====
